---- MODULE Spec2Model ----
(***************************************************************************)
(* A model of the struct-to-bson mapper (package mapper):                  *)
(*   src/struct-to-map.go  ConvertStructToBSONMap, ToBSONMap, nestedData,  *)
(*                         parseTag, tagOptions.Has                        *)
(*   src/utility.go        structFields, structVal                         *)
(*                                                                         *)
(* Go values are records carrying their reflect.Kind (k) and the chain of  *)
(* kinds that reflect.Type.Elem() walks (t).  A struct tag string is the   *)
(* sequence of its comma-free chunks and its "," separators, so that       *)
(* parseTag really splits it.  A Go map is a function from the printed key  *)
(* to the element, with the key's kind kept in kk.                          *)
(***************************************************************************)
EXTENDS Integers, Sequences, FiniteSets, TLC

VARIABLES
    DefaultTagName, \* the package variable DefaultTagName
    arg,        \* the argument s of ConvertStructToBSONMap
    opts,       \* the *MappingOpts argument
    TagName,    \* StructToBSON.TagName of the handle
    pc,         \* "call", "loop", "done" or "panic"; "idle" and "wrapped" when
                \* the handle is made and used by hand
    fields,     \* ToBSONMap: fields := s.structFields()
    i,          \* ToBSONMap: position of the range loop in fields
    out,        \* ToBSONMap: the entries of the local out := bson.M{}
    result,     \* the returned bson.M
    calls,      \* concurrent invocations: for each, its pc and its locals
    writes,     \* assignments to DefaultTagName made by another goroutine
    rawTag,     \* parseTag called by hand: its argument tag
    parsedTag,  \* parseTag called by hand: the name and the tagOptions returned
    hasAnswer   \* tagOptions.Has called by hand: the option asked and the answer

vars == <<DefaultTagName, arg, opts, TagName, pc, fields, i, out, result,
          calls, writes, rawTag, parsedTag, hasAnswer>>

(***************************************************************************)
(* Bounds of the model.                                                    *)
(***************************************************************************)
MaxFields == 2      \* most fields of a generated top-level struct
NumCalls == 2       \* concurrent invocations of ConvertStructToBSONMap
MaxWrites == 1      \* assignments to DefaultTagName by another goroutine
MaxTagLen == 5      \* most commas and comma-free chunks in a tag handed to parseTag

(***************************************************************************)
(* Go values.                                                              *)
(***************************************************************************)
Invalid == [k |-> "invalid", t |-> <<"invalid">>]

StrV(s) == [k |-> "string", t |-> <<"string">>, s |-> s]

IntV(n) == [k |-> "int", t |-> <<"int">>, n |-> n]

BoolV(b) == [k |-> "bool", t |-> <<"bool">>, b |-> b]

Func == [k |-> "func", t |-> <<"func">>, nil |-> FALSE]

\* a struct field: reflect.StructField (Name, PkgPath, Tag) and its value
Fld(name, pkgPath, tag, val) ==
    [Name |-> name, PkgPath |-> pkgPath, Tag |-> tag, val |-> val]

\* a struct value; stringer: the type has a String() method (value receiver)
Struct(fs, stringer, text) ==
    [k |-> "struct", t |-> <<"struct">>, fields |-> fs,
     stringer |-> stringer, text |-> text]

\* an array such as primitive.ObjectID ([12]byte, with a String() method)
Arr(et, elems, stringer, text) ==
    [k |-> "array", t |-> <<"array">> \o et, elems |-> elems,
     stringer |-> stringer, text |-> text]

Slice(et, nil, elems) ==
    [k |-> "slice", t |-> <<"slice">> \o et, nil |-> nil, elems |-> elems]

\* tn: the name of the map type ("primitive.M" for bson.M, "" if unnamed);
\* keys: the keys in the order a range over the map visits them when it runs
\* "up" (kept only for the maps the mapper ranges over for their elements)
KeyedMap(kk, et, tn, nil, keys, ents) ==
    [k |-> "map", t |-> <<"map">> \o et, kk |-> kk, tn |-> tn,
     nil |-> nil, keys |-> keys, ents |-> ents]

Map(kk, et, tn, nil, ents) == KeyedMap(kk, et, tn, nil, <<>>, ents)

\* stringer: the pointee type has a String() method with a value receiver, so
\* the pointer type has it too
Ptr(target) ==
    [k |-> "ptr", t |-> <<"ptr">> \o target.t, nil |-> FALSE, elem |-> target,
     stringer |-> (target.k \in {"struct", "array"} /\ target.stringer)]

NilPtr(et, stringer) ==
    [k |-> "ptr", t |-> <<"ptr">> \o et, nil |-> TRUE, elem |-> Invalid,
     stringer |-> stringer]

\* a value held in a field of static type interface{}; a nil interface holds Invalid
Iface(dyn) == [k |-> "iface", t |-> <<"iface">>, dyn |-> dyn]

\* bson.M / primitive.M: map[string]interface{}
M(ents) == Map("string", <<"iface">>, "primitive.M", FALSE, ents)

NilM == Map("string", <<"iface">>, "primitive.M", TRUE, <<>>)

\* []interface{}
Slices(elems) == Slice(<<"iface">>, FALSE, elems)

(***************************************************************************)
(* reflect                                                                 *)
(***************************************************************************)
\* reflect.ValueOf(val.Interface()): the dynamic value of val
ValueOf(val) == IF val.k = "iface" THEN val.dyn ELSE val

\* reflect.Value.Elem() of a pointer
Elem(v) == IF v.nil THEN Invalid ELSE v.elem

\* reflect.Type.Elem() is defined for these kinds and panics for every other
HasElem(t) == Head(t) \in {"array", "chan", "map", "ptr", "slice"}

RECURSIVE IsZero(_)
\* reflect.Value.IsZero
IsZero(v) ==
    CASE v.k = "string" -> v.s = ""
      [] v.k = "int" -> v.n = 0
      [] v.k = "bool" -> ~v.b
      [] v.k = "array" -> \A x \in DOMAIN v.elems : IsZero(v.elems[x])
      [] v.k = "struct" -> \A x \in DOMAIN v.fields : IsZero(v.fields[x].val)
      [] v.k = "iface" -> v.dyn.k = "invalid"
      [] v.k \in {"slice", "map", "ptr", "func"} -> v.nil
      [] OTHER -> TRUE

\* len(m) of a map, val.Len() of a slice or array
Len_(v) ==
    CASE v.k = "map" -> Cardinality(DOMAIN v.ents)
      [] v.k \in {"slice", "array"} -> Len(v.elems)
      [] OTHER -> 0

\* k.String() of a map key: the string itself, "<int Value>" for an int key
KeyString(kk, key) == IF kk = "string" THEN key ELSE "<int Value>"

(***************************************************************************)
(* tags: src/struct-to-map.go 275-301                                      *)
(***************************************************************************)
\* reflect.StructTag.Get(key): the tag string stored under key, "" if none
TagGet(tag, key) == IF key \in DOMAIN tag THEN tag[key] ELSE <<>>

RECURSIVE Split(_)
\* strings.Split(tag, ","): the segments between the separators, as strings;
\* always at least one segment (a segment is empty or one comma-free chunk)
Split(tag) ==
    LET commas == {x \in DOMAIN tag : tag[x] = ","}
    IN  IF commas = {}
        THEN << IF tag = <<>> THEN "" ELSE tag[1] >>
        ELSE LET c == CHOOSE x \in commas : \A y \in commas : x <= y
                 first == IF c = 1 THEN "" ELSE tag[1]
             IN  <<first>> \o Split(SubSeq(tag, c + 1, Len(tag)))

\* parseTag with the empty segments left out of the options
parseTagDroppingEmpty(tag) ==
    [name |-> Split(tag)[1],
     opts |-> {Split(tag)[x] : x \in 2..Len(Split(tag))} \ {""}]

\* parseTag with the name segment lost
parseTagNameless(tag) ==
    LET res == Split(tag)
    IN  [name |-> "", opts |-> {res[x] : x \in 2..Len(res)}]

\* parseTag: (res[0], the set of the later segments)
parseTag(tag) ==
    LET res == Split(tag)
    IN  [name |-> res[1], opts |-> {res[x] : x \in 2..Len(res)}]

\* a Has that takes every option as present once the tag holds "unknown"
HasOrUnknown(tagOpts, opt) == opt \in tagOpts \/ "unknown" \in tagOpts

\* tagOptions.Has
Has(tagOpts, opt) == opt \in tagOpts

(***************************************************************************)
(* src/utility.go 1-45                                                     *)
(***************************************************************************)
\* structVal following one pointer only
structValOnePointer(v) ==
    IF v.k = "ptr" /\ Elem(v).k = "struct" THEN [panic |-> FALSE, v |-> Elem(v)]
    ELSE IF v.k # "struct" THEN [panic |-> TRUE, v |-> Invalid]
    ELSE [panic |-> FALSE, v |-> v]

RECURSIVE structVal(_)
\* structVal: follows pointers; panics ("not struct") unless it ends at a struct
structVal(v) ==
    IF v.k = "ptr" THEN structVal(Elem(v))
    ELSE IF v.k # "struct" THEN [panic |-> TRUE, v |-> Invalid]
    ELSE [panic |-> FALSE, v |-> v]

\* the test of structFields made on the parsed name in place of the whole tag
fieldKeptByName(field, tagName) ==
    /\ field.PkgPath = ""
    /\ parseTag(TagGet(field.Tag, tagName)).name # "-"

\* the test of structFields without the test of PkgPath
fieldKeptUnexported(field, tagName) == TagGet(field.Tag, tagName) # <<"-">>

\* the test of structFields on one field: exported, and the whole tag is not "-"
fieldKept(field, tagName) ==
    /\ field.PkgPath = ""
    /\ TagGet(field.Tag, tagName) # <<"-">>

\* structFields: the kept fields of the struct, in declaration order
structFields(sv, tagName) ==
    SelectSeq(sv.fields, LAMBDA f : fieldKept(f, tagName))

(***************************************************************************)
(* src/struct-to-map.go 113-273: the rules of ToBSONMap on one field       *)
(***************************************************************************)
\* MappingOpts: a nil pointer, or the three switches
NilOpts ==
    [nil |-> TRUE, UseIDifAvailable |-> FALSE, RemoveID |-> FALSE,
     GenerateFilterOrPatch |-> FALSE]

MappingOpts(u, r, g) ==
    [nil |-> FALSE, UseIDifAvailable |-> u, RemoveID |-> r,
     GenerateFilterOrPatch |-> g]

\* the shortcut without the test of the value
notEmptyStringUntested(val) == TRUE

\* val.Interface() != "": the dynamic value is not the string ""
notEmptyString(val) == ~(ValueOf(val).k = "string" /\ ValueOf(val).s = "")

\* line 132-135: return bson.M{"_id": val.Interface()}
useID(o, tagName, val) ==
    /\ ~o.nil
    /\ tagName = "_id"
    /\ o.UseIDifAvailable
    /\ notEmptyString(val)

\* removeID with the switch mistaken: it tests UseIDifAvailable
removeIDTestsUseID(o, tagName) ==
    /\ ~o.nil
    /\ tagName = "_id"
    /\ o.UseIDifAvailable

\* removeID without the test of the tag name: every field is skipped
removeIDAnyField(o, tagName) ==
    /\ ~o.nil
    /\ o.RemoveID

\* removeID without the test opts != nil, a nil pointer counting as set
removeIDOnNil(o, tagName) ==
    /\ tagName = "_id"
    /\ o.nil \/ o.RemoveID

\* line 132, 136-138: continue
removeID(o, tagName) ==
    /\ ~o.nil
    /\ tagName = "_id"
    /\ o.RemoveID

\* line 142-159: continue, the field is omitted
omitEmpty(o, tagOpts, val) ==
    /\ Has(tagOpts, "omitempty") \/ (~o.nil /\ o.GenerateFilterOrPatch)
    /\ \/ IsZero(val)
       \/ val.k = "slice" /\ Len_(val) = 0
       \/ val.k = "map" /\ Len_(val) = 0

\* line 162-176: isSubStruct
isSubStruct(tagOpts, val) ==
    /\ ~Has(tagOpts, "omitnested")
    /\ LET v0 == ValueOf(val)
           v == IF v0.k = "ptr" THEN Elem(v0) ELSE v0
       IN  v.k \in {"map", "struct"}

\* val.Interface().(fmt.Stringer): ok
isStringer(val) ==
    LET d == ValueOf(val)
    IN  d.k \in {"struct", "array", "ptr"} /\ d.stringer

\* s.String(): a value-receiver method called through a nil pointer panics
String(val) ==
    LET d == ValueOf(val)
    IN  IF d.k = "ptr"
        THEN IF d.nil THEN [panic |-> TRUE, s |-> ""]
             ELSE [panic |-> FALSE, s |-> d.elem.text]
        ELSE [panic |-> FALSE, s |-> d.text]

\* finalVal.(primitive.M): ok
isPrimitiveM(finalVal) == finalVal.k = "map" /\ finalVal.tn = "primitive.M"

\* an assignment that keeps the entry a key already has
PutIfAbsent(o, k, v) == [x \in DOMAIN o \cup {k} |-> IF x \in DOMAIN o THEN o[x] ELSE v]

\* out[k] = v
Put(o, k, v) == [x \in DOMAIN o \cup {k} |-> IF x = k THEN v ELSE o[x]]

\* flatten with the range mistaken: for k := range out { out[k] = outMap[k] }
flattenRangesOut(o, finalVal) ==
    [x \in DOMAIN o |->
        IF x \in DOMAIN finalVal.ents THEN finalVal.ents[x] ELSE o[x]]

\* line 189-192: for k := range finalVal.(primitive.M) { out[k] = outMap[k] }
flatten(o, finalVal) ==
    [x \in DOMAIN o \cup DOMAIN finalVal.ents |->
        IF x \in DOMAIN finalVal.ents THEN finalVal.ents[x] ELSE o[x]]

\* the return of ToBSONMap without the test of len(out)
returnedAsIs(o) == M(o)

\* line 197-200: nil for an empty out
returned(o) == IF Cardinality(DOMAIN o) = 0 THEN NilM ELSE M(o)

(***************************************************************************)
(* The recursion of ToBSONMap and nestedData.  A result is                 *)
(* [panic, v]; ord is the order in which Go happens to range over a map.   *)
(***************************************************************************)
RECURSIVE ToBSONMap(_, _, _, _), nestedData(_, _, _, _), rangeFields(_, _, _, _, _, _)
RECURSIVE nestedMap(_, _, _, _, _), nestedSlice(_, _, _, _, _)
RECURSIVE afterField(_, _, _, _, _, _)

\* resolve with the omitnested test lost: nestedData is always called
resolveAlwaysNested(tagOpts, val, mo, tag, ord) ==
    nestedData(val, mo, tag, ord)

\* line 162-176: finalVal, resolved by nestedData unless the tag has omitnested
resolve(tagOpts, val, mo, tag, ord) ==
    IF ~Has(tagOpts, "omitnested")
    THEN nestedData(val, mo, tag, ord)
    ELSE [panic |-> FALSE, v |-> ValueOf(val)]

\* line 178-195: the string rule, then flatten or the plain assignment, for the
\* resolved value nested (a panic of nestedData goes up)
assign(o, name, tagOpts, val, nested) ==
    IF nested.panic THEN [ctl |-> "panic", out |-> o]
    ELSE IF Has(tagOpts, "string")
    THEN IF ~isStringer(val) THEN [ctl |-> "next", out |-> o]
         ELSE IF String(val).panic THEN [ctl |-> "panic", out |-> o]
         ELSE [ctl |-> "next", out |-> Put(o, name, StrV(String(val).s))]
    ELSE IF isSubStruct(tagOpts, val) /\ Has(tagOpts, "flatten")
    THEN IF ~isPrimitiveM(nested.v) THEN [ctl |-> "panic", out |-> o]
         ELSE [ctl |-> "next", out |-> flatten(o, nested.v)]
    ELSE [ctl |-> "next", out |-> Put(o, name, nested.v)]

\* line 120-196: the body of the range loop for one field.
\* ctl: "next" (go on with out), "return" (return out at once) or "panic"
fieldStep(o, field, mo, tag, ord) ==
    LET val == field.val
        parsed == parseTag(TagGet(field.Tag, tag))
        tagName == parsed.name
        tagOpts == parsed.opts
        name == IF tagName # "" THEN tagName ELSE field.Name
    IN  IF useID(mo, tagName, val)
        THEN [ctl |-> "return", out |-> ("_id" :> ValueOf(val))]
        ELSE IF removeID(mo, tagName) THEN [ctl |-> "next", out |-> o]
        ELSE IF omitEmpty(mo, tagOpts, val) THEN [ctl |-> "next", out |-> o]
        ELSE assign(o, name, tagOpts, val, resolve(tagOpts, val, mo, tag, ord))

\* line 120-196: what the loop does after field n gave st: the panic goes up,
\* the shortcut returns at once, and otherwise the loop goes on
afterField(st, fs, n, mo, tag, ord) ==
    CASE st.ctl = "panic" -> [panic |-> TRUE, v |-> NilM]
      [] st.ctl = "return" -> [panic |-> FALSE, v |-> M(st.out)]
      [] OTHER -> rangeFields(fs, n + 1, st.out, mo, tag, ord)

\* line 120, 197-200: the range loop from position n on, and the return
rangeFields(fs, n, o, mo, tag, ord) ==
    IF n > Len(fs) THEN [panic |-> FALSE, v |-> returned(o)]
    ELSE afterField(fieldStep(o, fs[n], mo, tag, ord), fs, n, mo, tag, ord)

\* ToBSONMap of the handle of struct value sv with TagName tag
ToBSONMap(sv, mo, tag, ord) ==
    rangeFields(structFields(sv, tag), 1, <<>>, mo, tag, ord)

\* line 241-243: m[k.String()] = s.nestedData(val.MapIndex(k), opts) for the
\* keys at the positions not yet visited; ord decides which the range visits next
nestedMap(val, todo, mo, tag, ord) ==
    IF todo = {} THEN [panic |-> FALSE, v |-> <<>>]
    ELSE LET p == IF ord = "up"
                  THEN CHOOSE x \in todo : \A y \in todo : x <= y
                  ELSE CHOOSE x \in todo : \A y \in todo : y <= x
             key == val.keys[p]
             one == nestedData(val.ents[key], mo, tag, ord)
             rest == nestedMap(val, todo \ {p}, mo, tag, ord)
         IN  IF one.panic \/ rest.panic THEN [panic |-> TRUE, v |-> <<>>]
             ELSE [panic |-> FALSE,
                   v |-> Put(rest.v, KeyString(val.kk, key),
                             IF KeyString(val.kk, key) \in DOMAIN rest.v
                             THEN rest.v[KeyString(val.kk, key)] ELSE one.v)]

\* line 262-265: slices[x] = s.nestedData(val.Index(x), opts)
nestedSlice(val, x, mo, tag, ord) ==
    IF x > Len(val.elems) THEN [panic |-> FALSE, v |-> <<>>]
    ELSE LET one == nestedData(val.elems[x], mo, tag, ord)
             rest == nestedSlice(val, x + 1, mo, tag, ord)
         IN  IF one.panic \/ rest.panic THEN [panic |-> TRUE, v |-> <<>>]
             ELSE [panic |-> FALSE, v |-> <<one.v>> \o rest.v]

\* line 228-235: the element type the map case looks at
mapElem(t) ==
    IF Head(t) \in {"ptr", "array", "map", "slice", "chan"}
    THEN IF Head(Tail(t)) = "ptr" THEN Tail(Tail(t)) ELSE Tail(t)
    ELSE t

\* line 239: the map holds structs, or slices of structs
mapOfStructs(t) ==
    \/ Head(mapElem(t)) = "struct"
    \/ Head(mapElem(t)) = "slice" /\ Head(Tail(mapElem(t))) = "struct"

\* line 256: the slice or array holds structs or pointers to structs
sliceOfStructs(t) ==
    \/ Head(Tail(t)) = "struct"
    \/ Head(Tail(t)) = "ptr" /\ Head(Tail(Tail(t))) = "struct"

\* the struct case without the fallback to the raw value
orRawNever(m, val) ==
    IF m.panic THEN [panic |-> TRUE, v |-> Invalid] ELSE m

\* line 219-223: the nested document m, or the raw value when m is empty
orRaw(m, val) ==
    IF m.panic THEN [panic |-> TRUE, v |-> Invalid]
    ELSE IF Len_(m.v) = 0 THEN [panic |-> FALSE, v |-> ValueOf(val)]
    ELSE m

\* the struct case with the nested handle left at DefaultTagName
structDataDefaultTagName(n, val, mo, tag, ord) ==
    IF n.panic THEN [panic |-> TRUE, v |-> Invalid]
    ELSE orRaw(ToBSONMap(n.v, mo, DefaultTagName, ord), val)

\* line 216-224: the struct case of nestedData, n being the struct reached
structData(n, val, mo, tag, ord) ==
    IF n.panic THEN [panic |-> TRUE, v |-> Invalid]
    ELSE orRaw(ToBSONMap(n.v, mo, tag, ord), val)

\* line 205-273: nestedData
nestedData(val, mo, tag, ord) ==
    LET v0 == ValueOf(val)
        v == IF v0.k = "ptr" THEN Elem(v0) ELSE v0
        raw == [panic |-> FALSE, v |-> ValueOf(val)]
    IN  CASE v.k = "struct" ->
                structData(structVal(ValueOf(val)), val, mo, tag, ord)
          [] v.k = "map" ->
                IF ~mapOfStructs(val.t) THEN raw
                ELSE LET m == nestedMap(val, DOMAIN val.keys, mo, tag, ord)
                     IN  IF m.panic THEN [panic |-> TRUE, v |-> Invalid]
                         ELSE [panic |-> FALSE, v |-> M(m.v)]
          [] v.k \in {"slice", "array"} ->
                LET val1 == IF Head(val.t) = "ptr" THEN Elem(val) ELSE val
                IN  \* val.Type().Elem() panics for a field of interface type
                    IF ~HasElem(val1.t) THEN [panic |-> TRUE, v |-> Invalid]
                    ELSE IF ~sliceOfStructs(val1.t)
                    THEN [panic |-> FALSE, v |-> val1]
                    ELSE LET sl == nestedSlice(val1, 1, mo, tag, ord)
                         IN  IF sl.panic THEN [panic |-> TRUE, v |-> Invalid]
                             ELSE [panic |-> FALSE, v |-> Slices(sl.v)]
          [] OTHER -> raw

(***************************************************************************)
(* The arguments the mapper is called with.                                *)
(***************************************************************************)
\* a tag `bson:"..."`, and no tag at all
B(tagString) == "bson" :> tagString

NoTag == <<>>

\* struct { ID string `bson:"_id"`; X int `bson:"x"` }
Inner(id, x) ==
    Struct(<<Fld("ID", "", B(<<"_id">>), StrV(id)),
             Fld("X", "", B(<<"x">>), IntV(x))>>, FALSE, "")

\* struct { ID string `bson:"_id"`; Sub Inner `bson:"sub"`; Tall bool `bson:"tall"` }
Outer(id, sub, tall) ==
    Struct(<<Fld("ID", "", B(<<"_id">>), StrV(id)),
             Fld("Sub", "", B(<<"sub">>), sub),
             Fld("Tall", "", B(<<"tall">>), BoolV(tall))>>, FALSE, "")

\* a struct like time.Time: unexported fields only, and a String() method
Time(wall) ==
    Struct(<<Fld("wall", "time", NoTag, IntV(wall))>>, TRUE, "2000-01-01")

\* primitive.ObjectID, shortened to two bytes
ObjectID(b) == Arr(<<"int">>, <<IntV(0), IntV(b)>>, TRUE, "ObjectID")

\* struct { X int `bson:"x"`; Secret string `bson:"-"`; pin int }
Account(x, secret, pin) ==
    Struct(<<Fld("X", "", B(<<"x">>), IntV(x)),
             Fld("Secret", "", B(<<"-">>), StrV(secret)),
             Fld("pin", "main", NoTag, IntV(pin))>>, FALSE, "")

DocFields ==
    { Fld("Doc", "", B(tg), Inner("in", 1)) :
        tg \in { <<"doc">>, <<"doc", ",", "flatten">>, <<"doc", ",", "omitnested">>,
                 <<"x", ",", "flatten">>,
                 <<"doc", ",", "omitnested", ",", "flatten">> } }
    \cup
    { Fld("Doc", "", B(<<"doc", ",", "flatten">>), Ptr(Inner("in", 1))),
      Fld("Doc", "", B(<<"doc", ",", "omitempty">>), Inner("", 0)),
      Fld("Doc", "", B(<<"doc">>), Inner("", 0)),
      Fld("Doc", "", B(<<"doc">>), NilPtr(<<"struct">>, FALSE)),
      Fld("Doc", "", B(<<"doc">>), Outer("out", Inner("in", 0), FALSE)),
      Fld("Doc", "", B(<<"doc", ",", "flatten">>), Outer("", Inner("", 1), TRUE)),
      Fld("Doc", "", B(<<"doc">>), Account(1, "s", 0)),
      Fld("Doc", "", B(<<"doc", ",", "omitempty">>), Account(0, "", 0)) }

IDFields ==
    { Fld("ID", "", B(<<"_id">>), v) :
        v \in { StrV("abc"), StrV(""), IntV(0), ObjectID(0), ObjectID(1),
                NilPtr(<<"string">>, FALSE) } }
    \cup
    { Fld("ID", "", B(<<"_id", ",", "omitempty">>), v) : v \in { StrV(""), IntV(0) } }

NameFields ==
    { Fld("Name", "", B(<<"name">>), StrV("Jane")),
      Fld("Name", "", B(<<"name">>), StrV("")),
      Fld("Name", "", B(<<"name", ",", "omitempty">>), StrV("")),
      Fld("Name", "", NoTag, StrV("Jane")),
      Fld("Name", "", B(<<",", "omitempty">>), StrV("Jane")),
      Fld("Name", "", B(<<"x">>), StrV("Jane")),
      Fld("Name", "", B(<<"name", ",", "string">>), StrV("Jane")) }

WhenFields ==
    { Fld("When", "", B(tg), Time(1)) :
        tg \in { <<"when">>, <<"when", ",", "string">>, <<"when", ",", "flatten">>,
                 <<"when", ",", "omitnested", ",", "string">>,
                 <<"when", ",", "string", ",", "flatten">> } }
    \cup
    { Fld("When", "", B(<<"when", ",", "omitempty">>), Time(0)),
      Fld("When", "", B(<<"when", ",", "string">>), Ptr(Time(1))),
      Fld("When", "", B(<<"when", ",", "string">>), NilPtr(<<"struct">>, TRUE)) }

\* map[string]int, bson.M and map[string]Inner values
IntMap(nil, ents) == Map("string", <<"int">>, "", nil, ents)

StructMap(keys, ents) == KeyedMap("string", <<"struct">>, "", FALSE, keys, ents)

\* a map[int]Inner with the keys 1 and 2
ByNumber ==
    KeyedMap("int", <<"struct">>, "", FALSE, <<"1", "2">>,
             ("1" :> Inner("a", 1)) @@ ("2" :> Inner("b", 2)))

AttrsFields ==
    { Fld("Attrs", "", B(tg), v) :
        tg \in { <<"attrs">>, <<"attrs", ",", "flatten">> },
        v \in { IntMap(FALSE, "a" :> IntV(1)),
                M(("_id" :> IntV(1)) @@ ("x" :> StrV(""))),
                StructMap(<<"_id", "k">>,
                          ("_id" :> Inner("in", 1)) @@ ("k" :> Inner("", 0))) } }
    \cup
    { Fld("Attrs", "", B(<<"attrs", ",", "omitempty">>), IntMap(FALSE, <<>>)),
      Fld("Attrs", "", B(<<"attrs", ",", "omitempty">>), IntMap(TRUE, <<>>)),
      Fld("Attrs", "", B(<<"attrs", ",", "flatten">>), Ptr(M("k" :> IntV(2)))),
      Fld("Attrs", "", B(<<"attrs">>), ByNumber),
      Fld("Attrs", "", B(<<"attrs">>), StructMap(<<>>, <<>>)) }

ItemsFields ==
    { Fld("Items", "", B(<<"items">>), v) :
        v \in { Slice(<<"struct">>, FALSE, <<Inner("in", 1), Inner("", 0)>>),
                Slice(<<"ptr", "struct">>, FALSE,
                      <<Ptr(Inner("", 2)), NilPtr(<<"struct">>, FALSE)>>),
                Slice(<<"int">>, FALSE, <<IntV(0)>>),
                Iface(Slice(<<"int">>, FALSE, <<IntV(1)>>)),
                Iface(Inner("in", 0)),
                Iface(Invalid) } }
    \cup
    { Fld("Items", "", B(<<"items", ",", "omitempty">>), v) :
        v \in { Slice(<<"int">>, FALSE, <<>>), Slice(<<"int">>, TRUE, <<>>) } }
    \cup
    { Fld("Items", "", B(<<"items", ",", "string">>),
          Iface(Slice(<<"int">>, FALSE, <<IntV(1)>>))) }

SecretFields ==
    { Fld("Secret", "", B(<<"-">>), StrV("secret")),
      Fld("Secret", "", B(<<"-", ",", "omitempty">>), StrV("secret")),
      Fld("Secret", "", B(<<"-", ",", "omitempty">>), StrV("")),
      Fld("favouriteColor", "main", B(<<"colour">>), StrV("blue")) }

\* the fields a generated struct draws from, in declaration order
Slots == <<DocFields, WhenFields, IDFields, NameFields, AttrsFields, ItemsFields,
           SecretFields>>

RECURSIVE FieldLists(_, _)
\* the field lists with at most n fields, one per slot from slot p on, in order
FieldLists(p, n) ==
    IF p > Len(Slots) \/ n = 0 THEN {<<>>}
    ELSE FieldLists(p + 1, n)
         \cup { <<f>> \o rest : f \in Slots[p], rest \in FieldLists(p + 1, n - 1) }

Structs == { Struct(fs, FALSE, "") : fs \in FieldLists(1, MaxFields) }

\* arguments that are no struct and no pointer to a struct
NonStructs ==
    { IntV(1), StrV("s"), Slice(<<"int">>, FALSE, <<IntV(1)>>), Func,
      NilPtr(<<"struct">>, FALSE), Ptr(IntV(1)), IntMap(FALSE, <<>>),
      Invalid, Ptr(Ptr(Inner("in", 1))), Ptr(IntMap(FALSE, <<>>)), Ptr(Func) }

Args ==
    Structs \cup { Ptr(Struct(fs, FALSE, "")) : fs \in FieldLists(1, 1) }
            \cup NonStructs

Options == {NilOpts} \cup { MappingOpts(u, r, g) : u, r, g \in BOOLEAN }

\* the orders in which a range over a map may visit its keys
Orders == {"up", "down"}

(***************************************************************************)
(* The calls.                                                              *)
(***************************************************************************)
Init ==
    /\ DefaultTagName = "bson"
    /\ arg \in Args
    /\ opts \in Options
    /\ TagName = DefaultTagName
    /\ pc = "call"
    /\ fields = <<>>
    /\ i = 0
    /\ out = <<>>
    /\ result = NilM
    /\ calls = <<>>
    /\ writes = 0
    /\ rawTag = <<>>
    /\ parsedTag = [name |-> "", opts |-> {}]
    /\ hasAnswer = [opt |-> "", ok |-> FALSE]

\* the test of line 107 accepting every pointer
isStructArgAnyPtr(s) ==
    \/ s.k = "struct"
    \/ s.k = "ptr"

\* line 107: s is a struct, or a pointer to a struct
isStructArg(s) ==
    \/ s.k = "struct"
    \/ s.k = "ptr" /\ Elem(s).k = "struct"

\* ConvertStructToBSONMap up to the range loop of ToBSONMap (line 106-118)
ConvertStructToBSONMap ==
    /\ pc = "call"
    /\ IF ~isStructArg(arg)
       THEN /\ result' = NilM
            /\ pc' = "done"
            /\ UNCHANGED <<TagName, fields, i, out, rawTag, parsedTag, hasAnswer>>
       ELSE IF structVal(arg).panic
       THEN \* NewBSONMapperStruct: structVal panics "not struct"
            /\ pc' = "panic"
            /\ UNCHANGED <<TagName, fields, i, out, result, rawTag, parsedTag, hasAnswer>>
       ELSE \* NewBSONMapperStruct(s).ToBSONMap(opts)
            /\ TagName' = DefaultTagName
            /\ fields' = structFields(structVal(arg).v, DefaultTagName)
            /\ i' = 1
            /\ out' = <<>>
            /\ pc' = "loop"
            /\ UNCHANGED result
    /\ UNCHANGED <<DefaultTagName, arg, opts, calls, writes, rawTag, parsedTag, hasAnswer>>

\* one pass of the range loop of the top-level ToBSONMap (line 120-196)
RangeField ==
    /\ pc = "loop"
    /\ i <= Len(fields)
    /\ \E ord \in Orders :
       \E st \in {fieldStep(out, fields[i], opts, TagName, ord)} :
             CASE st.ctl = "panic" ->
                    /\ pc' = "panic"
                    /\ UNCHANGED <<i, out, result, rawTag, parsedTag, hasAnswer>>
               [] st.ctl = "return" ->
                    /\ result' = M(st.out)
                    /\ pc' = "done"
                    /\ UNCHANGED <<i, out, rawTag, parsedTag, hasAnswer>>
               [] OTHER ->
                    /\ out' = st.out
                    /\ i' = i + 1
                    /\ UNCHANGED <<pc, result, rawTag, parsedTag, hasAnswer>>
    /\ UNCHANGED <<DefaultTagName, arg, opts, TagName, fields, calls, writes, rawTag, parsedTag, hasAnswer>>

\* the end of the top-level ToBSONMap (line 197-200)
Return ==
    /\ pc = "loop"
    /\ i > Len(fields)
    /\ result' = returned(out)
    /\ pc' = "done"
    /\ UNCHANGED <<DefaultTagName, arg, opts, TagName, fields, i, out, calls, writes, rawTag, parsedTag, hasAnswer>>

Next == ConvertStructToBSONMap \/ RangeField \/ Return

Spec == Init /\ [][Next]_vars

(***************************************************************************)
(* The handle used by hand: NewBSONMapperStruct, SetTagName, ToBSONMap,    *)
(* and assignments to the package variable DefaultTagName between them.    *)
(***************************************************************************)
\* the tag keys in use
TagNames == {"bson", "json", "db"}

\* struct tags with a value for bson and another for json
BJ(b, j) == ("bson" :> b) @@ ("json" :> j)

\* struct { X int `bson:"x" json:"ex,omitempty"` }
Point(x) == Struct(<<Fld("X", "", BJ(<<"x">>, <<"ex", ",", "omitempty">>), IntV(x))>>, FALSE, "")

\* struct { P Point `bson:"p" json:"q"` }
Seg(x) == Struct(<<Fld("P", "", BJ(<<"p">>, <<"q">>), Point(x))>>, FALSE, "")

\* struct { Pts []Seg `bson:"pts" json:"ps"`; By map[string]Point `bson:"by" json:"b"` }
Route ==
    Struct(<<Fld("Pts", "", BJ(<<"pts">>, <<"ps">>),
                 Slice(<<"struct">>, FALSE, <<Seg(1)>>)),
             Fld("By", "", BJ(<<"by">>, <<"b">>),
                 StructMap(<<"a">>, "a" :> Point(2)))>>, FALSE, "")

TagArgs ==
    { Struct(<<Fld("Name", "", BJ(<<"name">>, <<"n">>), StrV("Jane"))>>, FALSE, ""),
      Struct(<<Fld("Name", "", BJ(<<"name">>, <<"-">>), StrV("Jane")),
               Fld("At", "", BJ(<<"at">>, <<"at">>), Point(0))>>, FALSE, ""),
      Ptr(Struct(<<Fld("At", "", BJ(<<"at", ",", "flatten">>, <<>>), Point(1)),
                   Fld("ID", "", BJ(<<"-">>, <<"_id">>), StrV("abc"))>>, FALSE, "")),
      Struct(<<Fld("When", "", BJ(<<"when">>, <<"when", ",", "flatten">>), Time(1))>>,
             FALSE, ""),
      IntV(1) }
    \cup NonStructs
    \cup { Ptr(Ptr(Ptr(Inner("in", 1)))), Ptr(NilPtr(<<"struct">>, FALSE)), Route }

TagOptions == { NilOpts, MappingOpts(TRUE, FALSE, FALSE) }

TagInit ==
    /\ DefaultTagName = "bson"
    /\ arg \in TagArgs
    /\ opts \in TagOptions
    /\ TagName = ""
    /\ pc = "idle"
    /\ fields = <<>>
    /\ i = 0
    /\ out = <<>>
    /\ result = NilM
    /\ calls = <<>>
    /\ writes = 0
    /\ rawTag = <<>>
    /\ parsedTag = [name |-> "", opts |-> {}]
    /\ hasAnswer = [opt |-> "", ok |-> FALSE]

\* NewBSONMapperStruct with TagName fixed to "bson"
NewBSONMapperStructBson ==
    /\ pc \in {"idle", "done"}
    /\ IF structVal(arg).panic
       THEN pc' = "panic" /\ UNCHANGED TagName
       ELSE pc' = "wrapped" /\ TagName' = "bson"
    /\ UNCHANGED <<DefaultTagName, arg, opts, fields, i, out, result, calls, writes, rawTag, parsedTag, hasAnswer>>

\* line 65-71: a new handle on arg; structVal panics unless it is a struct
NewBSONMapperStruct ==
    /\ pc \in {"idle", "done"}
    /\ IF structVal(arg).panic
       THEN pc' = "panic" /\ UNCHANGED TagName
       ELSE pc' = "wrapped" /\ TagName' = DefaultTagName
    /\ UNCHANGED <<DefaultTagName, arg, opts, fields, i, out, result, calls, writes, rawTag, parsedTag, hasAnswer>>

\* line 74-76: s.TagName = tag
SetTagName ==
    /\ pc \in {"wrapped", "done"}
    /\ \E tag \in TagNames : TagName' = tag
    /\ UNCHANGED <<DefaultTagName, arg, opts, pc, fields, i, out, result, calls, writes, rawTag, parsedTag, hasAnswer>>

\* line 15-21: the program assigns to DefaultTagName between two calls
SetDefaultTagName ==
    /\ pc \in {"idle", "wrapped", "done"}
    /\ \E tag \in TagNames : DefaultTagName' = tag
    /\ UNCHANGED <<arg, opts, TagName, pc, fields, i, out, result, calls, writes, rawTag, parsedTag, hasAnswer>>

\* line 115-118: ToBSONMap is called on the handle, up to the range loop
CallToBSONMap ==
    /\ pc \in {"wrapped", "done"}
    /\ fields' = structFields(structVal(arg).v, TagName)
    /\ i' = 1
    /\ out' = <<>>
    /\ pc' = "loop"
    /\ UNCHANGED <<DefaultTagName, arg, opts, TagName, result, calls, writes, rawTag, parsedTag, hasAnswer>>

TagNext ==
    \/ NewBSONMapperStruct
    \/ SetTagName
    \/ SetDefaultTagName
    \/ CallToBSONMap
    \/ RangeField
    \/ Return

TagSpec == TagInit /\ [][TagNext]_vars

(***************************************************************************)
(* Concurrent invocations of ConvertStructToBSONMap on one record value,   *)
(* next to a goroutine of the program that assigns to DefaultTagName.      *)
(* Each invocation has its own handle and its own locals; the record and   *)
(* DefaultTagName are what they share.                                     *)
(***************************************************************************)
\* the locals of one invocation
Locals(pc0, tagName, fs, n, o, res) ==
    [pc |-> pc0, TagName |-> tagName, fields |-> fs, i |-> n, out |-> o,
     result |-> res]

Calls == 1..NumCalls

ConcInit ==
    /\ DefaultTagName = "bson"
    /\ arg \in TagArgs
    /\ opts \in TagOptions
    /\ TagName = ""
    /\ pc = "idle"
    /\ fields = <<>>
    /\ i = 0
    /\ out = <<>>
    /\ result = NilM
    /\ calls = [p \in Calls |-> Locals("call", "", <<>>, 0, <<>>, NilM)]
    /\ writes = 0
    /\ rawTag = <<>>
    /\ parsedTag = [name |-> "", opts |-> {}]
    /\ hasAnswer = [opt |-> "", ok |-> FALSE]

\* an invocation that leaves its tag name in DefaultTagName
ConcurrentConvertAssigning(p) ==
    /\ calls[p].pc = "call"
    /\ calls' = [calls EXCEPT ![p] =
                    IF ~isStructArg(arg)
                    THEN Locals("done", "", <<>>, 0, <<>>, NilM)
                    ELSE Locals("loop", "json",
                                structFields(structVal(arg).v, "json"),
                                1, <<>>, NilM)]
    /\ DefaultTagName' = "json"
    /\ UNCHANGED <<arg, opts, TagName, pc, fields, i, out, result, writes, rawTag, parsedTag, hasAnswer>>

\* line 106-118 in invocation p: the guard, NewBSONMapperStruct reading
\* DefaultTagName, and ToBSONMap up to its range loop
ConcurrentConvert(p) ==
    /\ calls[p].pc = "call"
    /\ calls' = [calls EXCEPT ![p] =
                    IF ~isStructArg(arg)
                    THEN Locals("done", "", <<>>, 0, <<>>, NilM)
                    ELSE Locals("loop", DefaultTagName,
                                structFields(structVal(arg).v, DefaultTagName),
                                1, <<>>, NilM)]
    /\ UNCHANGED <<DefaultTagName, arg, opts, TagName, pc, fields, i, out, result,
                   writes, rawTag, parsedTag, hasAnswer>>

\* line 120-196 in invocation p: one pass of its range loop
ConcurrentRangeField(p) ==
    /\ calls[p].pc = "loop"
    /\ calls[p].i <= Len(calls[p].fields)
    /\ \E ord \in Orders :
       \E st \in {fieldStep(calls[p].out, calls[p].fields[calls[p].i], opts,
                            calls[p].TagName, ord)} :
          calls' = [calls EXCEPT ![p] =
                      CASE st.ctl = "panic" -> [@ EXCEPT !.pc = "panic"]
                        [] st.ctl = "return" ->
                              [@ EXCEPT !.pc = "done", !.result = M(st.out)]
                        [] OTHER -> [@ EXCEPT !.out = st.out, !.i = @ + 1]]
    /\ UNCHANGED <<DefaultTagName, arg, opts, TagName, pc, fields, i, out, result,
                   writes, rawTag, parsedTag, hasAnswer>>

\* line 197-200 in invocation p: the return
ConcurrentReturn(p) ==
    /\ calls[p].pc = "loop"
    /\ calls[p].i > Len(calls[p].fields)
    /\ calls' = [calls EXCEPT ![p] =
                    [@ EXCEPT !.pc = "done", !.result = returned(calls[p].out)]]
    /\ UNCHANGED <<DefaultTagName, arg, opts, TagName, pc, fields, i, out, result,
                   writes, rawTag, parsedTag, hasAnswer>>

\* line 15-21: another goroutine of the program assigns to DefaultTagName
AssignDefaultTagName ==
    /\ writes < MaxWrites
    /\ \E tag \in TagNames \ {DefaultTagName} : DefaultTagName' = tag
    /\ writes' = writes + 1
    /\ UNCHANGED <<arg, opts, TagName, pc, fields, i, out, result, calls, rawTag, parsedTag, hasAnswer>>

ConcNext ==
    \/ \E p \in Calls : ConcurrentConvert(p)
    \/ \E p \in Calls : ConcurrentRangeField(p)
    \/ \E p \in Calls : ConcurrentReturn(p)
    \/ AssignDefaultTagName

ConcSpec == ConcInit /\ [][ConcNext]_vars

(***************************************************************************)
(* What the claims speak of.                                               *)
(***************************************************************************)
\* the call has ended: it returned, or it panicked
Ended == pc \in {"done", "panic"}

\* the top-level record of the call
Record == structVal(arg).v

\* the options are given and the switch is on
UseIDOn == ~opts.nil /\ opts.UseIDifAvailable

RemoveIDOn == ~opts.nil /\ opts.RemoveID

FilterOn == ~opts.nil /\ opts.GenerateFilterOrPatch

\* the parsed tag of a field and the key it is mapped under
TagOf(f) == parseTag(TagGet(f.Tag, TagName))

KeyOf(f) == IF TagOf(f).name # "" THEN TagOf(f).name ELSE f.Name

\* empty: the zero value of the type, or a slice or map without entries
Empty(val) ==
    \/ IsZero(val)
    \/ val.k \in {"slice", "map"} /\ Len_(val) = 0

\* the visible fields of the top-level record whose tag name is "_id"
IDFieldsOf(sv) ==
    { x \in DOMAIN sv.fields :
        /\ sv.fields[x].PkgPath = ""
        /\ TagOf(sv.fields[x]).name = "_id" }

\* C1: with UseIDifAvailable, a record with a visible "_id" field holding a
\* non-empty value maps to exactly {"_id": value}, whatever the other fields
\* hold, wherever the field is declared and whatever the other switches are.
C1_ShortcutWhateverTheOtherFields ==
    (Ended /\ isStructArg(arg) /\ UseIDOn) =>
        \A x \in IDFieldsOf(Record) :
            ~Empty(Record.fields[x].val) =>
                /\ pc = "done"
                /\ result = M("_id" :> ValueOf(Record.fields[x].val))

\* C2: with UseIDifAvailable, an "_id" field holding the zero value of its
\* type, whatever the type, does not take the shortcut: the call returns early
\* from the range loop (i still within fields) only on a non-empty value.
C2_NoShortcutOnZeroID ==
    (pc = "done" /\ isStructArg(arg) /\ i <= Len(fields)) =>
        ~IsZero(fields[i].val)

RECURSIVE HasIDKey(_)
\* some document (bson.M) inside v, at any depth, has an "_id" key
HasIDKey(v) ==
    CASE v.k = "map" ->
            \/ v.tn = "primitive.M" /\ "_id" \in DOMAIN v.ents
            \/ \E x \in DOMAIN v.ents : HasIDKey(v.ents[x])
      [] v.k = "slice" -> \E x \in DOMAIN v.elems : HasIDKey(v.elems[x])
      [] v.k = "ptr" -> ~v.nil /\ HasIDKey(v.elem)
      [] OTHER -> FALSE

RECURSIVE HasIDMapKey(_)
\* some map inside the value v, at any depth, has a key "_id"
HasIDMapKey(v) ==
    CASE v.k = "map" ->
            \/ "_id" \in DOMAIN v.ents
            \/ \E x \in DOMAIN v.ents : HasIDMapKey(v.ents[x])
      [] v.k \in {"slice", "array"} -> \E x \in DOMAIN v.elems : HasIDMapKey(v.elems[x])
      [] v.k = "ptr" -> ~v.nil /\ HasIDMapKey(v.elem)
      [] v.k = "iface" -> HasIDMapKey(v.dyn)
      [] v.k = "struct" -> \E x \in DOMAIN v.fields : HasIDMapKey(v.fields[x].val)
      [] OTHER -> FALSE

\* C3 as stated: with RemoveID, no document of the result has an "_id" key at
\* any depth (top level, nested records, elements of sequences and maps of
\* records, keys merged by flatten).
C3_NoIDAtAnyDepth ==
    (pc = "done" /\ RemoveIDOn) => ~HasIDKey(result)

\* C3 as amended: with RemoveID on and UseIDifAvailable off, and no map in the
\* record having a key "_id", no document of the result has an "_id" key at
\* any depth.
C3_NoIDFromFieldsAtAnyDepth ==
    (pc = "done" /\ RemoveIDOn /\ ~UseIDOn /\ ~HasIDMapKey(arg)) =>
        ~HasIDKey(result)

\* C3 witness: a nested record with a non-empty "_id" field was mapped to a
\* document that lacks "_id", below a top-level document.
C3_Witness ==
    /\ pc = "done" /\ RemoveIDOn /\ ~UseIDOn /\ isStructArg(arg)
    /\ ~HasIDMapKey(arg)
    /\ \E x \in DOMAIN Record.fields :
          /\ Record.fields[x].Name = "Doc"
          /\ Record.fields[x].val = Outer("out", Inner("in", 0), FALSE)
    /\ "doc" \in DOMAIN result.ents
    /\ result.ents["doc"] = M(("sub" :> M("x" :> IntV(0))) @@ ("tall" :> BoolV(FALSE)))

\* the value is a struct, or a non-nil pointer to a struct
IsRecord(val) ==
    \/ ValueOf(val).k = "struct"
    \/ ValueOf(val).k = "ptr" /\ Elem(ValueOf(val)).k = "struct"

RECURSIVE EmptyFieldEntry(_, _)
\* the document doc made from the record sv has an entry that comes from a
\* field whose value is empty: at its own level, in the document of a nested
\* record, or among the keys a flattened nested record merged into it
EmptyFieldEntry(sv, doc) ==
    \E x \in DOMAIN sv.fields :
        LET f == sv.fields[x]
        IN  /\ fieldKept(f, TagName)
            /\ \/ /\ Empty(f.val)
                  /\ KeyOf(f) \in DOMAIN doc.ents
                  /\ doc.ents[KeyOf(f)] = ValueOf(f.val)
               \/ /\ IsRecord(f.val)
                  /\ ~Has(TagOf(f).opts, "omitnested")
                  /\ IF Has(TagOf(f).opts, "flatten")
                     THEN EmptyFieldEntry(structVal(ValueOf(f.val)).v, doc)
                     ELSE /\ KeyOf(f) \in DOMAIN doc.ents
                          /\ isPrimitiveM(doc.ents[KeyOf(f)])
                          /\ EmptyFieldEntry(structVal(ValueOf(f.val)).v,
                                             doc.ents[KeyOf(f)])

\* C4: with GenerateFilterOrPatch, the result has no entry, at any depth, that
\* comes from a field whose value is empty.
C4_NoEntryFromEmptyField ==
    (pc = "done" /\ FilterOn /\ isStructArg(arg)) =>
        ~EmptyFieldEntry(Record, result)

\* the range loop is about to handle fields[i]
AtField == pc = "loop" /\ i <= Len(fields)

\* C5: a field tagged omitempty whose value is empty is skipped (the loop goes
\* on with out unchanged), and a struct whose fields were all skipped maps to
\* nil; without omitempty and with GenerateFilterOrPatch off, a field is never
\* skipped for being empty: unless RemoveID or the string tag drops it, the
\* step does not just go on with an out that lacks its key.
C5_OmitEmpty ==
    [][ /\ (AtField /\ Has(TagOf(fields[i]).opts, "omitempty")
                    /\ Empty(fields[i].val))
            => (pc' = "loop" /\ i' = i + 1 /\ out' = out)
        /\ (pc = "loop" /\ i > Len(fields) /\ DOMAIN out = {})
            => (pc' = "done" /\ result' = NilM)
        /\ (AtField /\ ~Has(TagOf(fields[i]).opts, "omitempty") /\ ~FilterOn
                    /\ Empty(fields[i].val)
                    /\ ~(RemoveIDOn /\ TagOf(fields[i]).name = "_id")
                    /\ ~Has(TagOf(fields[i]).opts, "string")
                    /\ pc' = "loop")
            => KeyOf(fields[i]) \in DOMAIN out'
      ]_vars

\* the step on fields[i] gets past the shortcut, RemoveID and the omission
Reached(f) ==
    /\ ~useID(opts, TagOf(f).name, f.val)
    /\ ~removeID(opts, TagOf(f).name)
    /\ ~omitEmpty(opts, TagOf(f).opts, f.val)

\* C6: whenever a field tagged flatten is treated as eligible for flattening
\* (isSubStruct is true), the resolved value is a document map, so the
\* assertion finalVal.(primitive.M) does not fail: for record fields with an
\* empty nested mapping, maps of other elements, pointers to records or maps.
C6_FlattenAssertionHolds ==
    \A ord \in Orders :
        (/\ AtField
         /\ Reached(fields[i])
         /\ ~Has(TagOf(fields[i]).opts, "string")
         /\ Has(TagOf(fields[i]).opts, "flatten")
         /\ isSubStruct(TagOf(fields[i]).opts, fields[i].val)
         /\ ~resolve(TagOf(fields[i]).opts, fields[i].val, opts, TagName, ord).panic)
        => isPrimitiveM(resolve(TagOf(fields[i]).opts, fields[i].val,
                                opts, TagName, ord).v)

\* the document of the nested record held by field f
NestedDoc(f, ord) == ToBSONMap(structVal(ValueOf(f.val)).v, opts, TagName, ord)

\* f is tagged flatten, holds a record, is not skipped, and its nested
\* document is not empty
FlattenedRecord(f) ==
    /\ Has(TagOf(f).opts, "flatten")
    /\ IsRecord(f.val)
    /\ Reached(f)
    /\ \A ord \in Orders : ~NestedDoc(f, ord).panic /\ Len_(NestedDoc(f, ord).v) > 0

C8_OmitNestedKeepsRaw ==
    [][ (/\ AtField
         /\ Has(TagOf(fields[i]).opts, "omitnested")
         /\ pc' = "loop" /\ out' # out) =>
            out' = Put(out, KeyOf(fields[i]), ValueOf(fields[i].val))
      ]_vars

\* C8 as amended: a field tagged omitnested and not tagged string, which the
\* shortcut, RemoveID and the omission do not skip, is written under its own
\* key holding the raw value: no nested document, nothing flattened, no fault,
\* also for a record or a map and also when it is tagged flatten.
C8_OmitNestedWithoutStringKeepsRaw ==
    [][ (/\ AtField
         /\ Has(TagOf(fields[i]).opts, "omitnested")
         /\ ~Has(TagOf(fields[i]).opts, "string")
         /\ Reached(fields[i])) =>
            /\ pc' = "loop"
            /\ i' = i + 1
            /\ out' = Put(out, KeyOf(fields[i]), ValueOf(fields[i].val))
      ]_vars

\* C8 witness: the loop has just written a record tagged omitnested and
\* flatten under its own key, as the raw struct.
C8_Witness ==
    /\ pc = "loop" /\ i > 1
    /\ TagOf(fields[i - 1]).opts = {"omitnested", "flatten"}
    /\ IsRecord(fields[i - 1].val)
    /\ out = ("doc" :> Inner("in", 1))

\* C9 as stated: the step on a string-tagged field that no earlier rule has
\* skipped writes key -> String() when the value is a fmt.Stringer and
\* otherwise writes nothing, and in both cases goes on to the next field
\* without a fault.
C9_StringCoercion ==
    [][ (/\ AtField
         /\ Has(TagOf(fields[i]).opts, "string")
         /\ Reached(fields[i])) =>
            /\ pc' = "loop"
            /\ i' = i + 1
            /\ out' = IF isStringer(fields[i].val)
                      THEN Put(out, KeyOf(fields[i]), StrV(String(fields[i].val).s))
                      ELSE out
      ]_vars

\* the field's whole tag value is the one character "-"
WholeTagIsDash(f) == TagGet(f.Tag, TagName) = <<"-">>

\* the position of a kept field in the declaration of the record
Declared(f) == CHOOSE x \in DOMAIN Record.fields : Record.fields[x] = f

RECURSIVE SubValues(_)
\* the value val and every value held inside it
SubValues(val) ==
    {val} \cup
    CASE val.k = "struct" ->
            UNION { SubValues(val.fields[x].val) : x \in DOMAIN val.fields }
      [] val.k = "ptr" -> IF val.nil THEN {} ELSE SubValues(val.elem)
      [] val.k = "iface" -> SubValues(val.dyn)
      [] val.k = "map" -> UNION { SubValues(val.ents[x]) : x \in DOMAIN val.ents }
      [] val.k \in {"slice", "array"} ->
            UNION { SubValues(val.elems[x]) : x \in DOMAIN val.elems }
      [] OTHER -> {}

\* the argument is a struct value or a non-nil pointer to a struct value
StructOrPointerToStruct(s) ==
    \/ s.k = "struct"
    \/ s.k = "ptr" /\ ~s.nil /\ s.elem.k = "struct"

\* nestedData takes the struct case on val: a struct behind at most one pointer
TakenAsStruct(val) ==
    \/ ValueOf(val).k = "struct"
    \/ ValueOf(val).k = "ptr" /\ Elem(ValueOf(val)).k = "struct"

\* C11: for an argument that is neither a struct nor a pointer to a struct the
\* call returns nil and does not panic, and no call reaches the "not struct"
\* panic of structVal: not on the argument, and not on a value that nestedData
\* wraps during the recursion.
C11_NonStructReturnsNil ==
    /\ (pc # "call" /\ ~StructOrPointerToStruct(arg)) => (pc = "done" /\ result = NilM)
    /\ (pc # "call" /\ StructOrPointerToStruct(arg)) => ~structVal(arg).panic
    /\ \A val \in SubValues(arg) :
          TakenAsStruct(val) => ~structVal(ValueOf(val)).panic

\* C11 witness: the call on a pointer to an int has returned nil
C11_Witness ==
    /\ pc = "done"
    /\ arg = Ptr(IntV(1))
    /\ result = NilM

\* a bson.M is nil, or it is not nil and has an entry
NilOrNonEmpty(m) == m.nil <=> (DOMAIN m.ents = {})

\* C12: ToBSONMap never returns a map that is not nil and empty.  The returned
\* map is nil exactly when the loop went through every field and none left an
\* entry, and otherwise it has entries: the entries of out, or the one entry
\* of the shortcut.  The same holds of the mapping of every record nested in
\* the argument.
C12_NilOrNonEmpty ==
    (pc = "done" /\ isStructArg(arg)) =>
        /\ NilOrNonEmpty(result)
        /\ result.nil <=> (i > Len(fields) /\ DOMAIN out = {})
        /\ (i > Len(fields) /\ DOMAIN out # {}) => result = M(out)
        /\ \A val \in SubValues(Record), ord \in Orders :
              (val.k = "struct" /\ ~ToBSONMap(val, opts, TagName, ord).panic)
                  => NilOrNonEmpty(ToBSONMap(val, opts, TagName, ord).v)

\* C12 witness: a record of two visible fields that are both omitted has been
\* mapped to nil.
C12_Witness ==
    /\ pc = "done" /\ isStructArg(arg)
    /\ Len(fields) = 2 /\ i = 3
    /\ result = NilM

\* the field is tagged with none of omitnested, string and flatten
PlainlyNested(f) ==
    TagOf(f).opts \cap {"omitnested", "string", "flatten"} = {}

\* the static type of the value is a struct or a pointer to a struct
RecordTyped(val) ==
    ValueOf(val).t \in {<<"struct">>, <<"ptr", "struct">>}

\* C13: the step on a field without omitnested, string and flatten, holding a
\* struct or a pointer to a struct, that no earlier rule has skipped, writes
\* under the field's key the document of the nested record, mapped with the
\* same options and the same tag name, when that document is not empty, and
\* the raw value of the field when it is empty (or the pointer is nil).
C13_NestedRecord ==
    [][ (/\ AtField
         /\ Reached(fields[i])
         /\ PlainlyNested(fields[i])
         /\ RecordTyped(fields[i].val)) =>
            /\ pc' = "loop"
            /\ i' = i + 1
            /\ out' = Put(out, KeyOf(fields[i]),
                          IF /\ IsRecord(fields[i].val)
                             /\ Len_(NestedDoc(fields[i], "up").v) > 0
                          THEN NestedDoc(fields[i], "up").v
                          ELSE ValueOf(fields[i].val))
      ]_vars

\* C13 witness: the loop has written the document {"sub": {"x": 0}, "tall":
\* false} of a nested record, mapped with RemoveID as its parent was, under
\* the key "doc".
C13_Witness ==
    /\ pc = "loop" /\ i > 1 /\ RemoveIDOn /\ ~UseIDOn /\ ~FilterOn
    /\ fields[i - 1] = Fld("Doc", "", B(<<"doc">>), Outer("out", Inner("in", 0), FALSE))
    /\ out = ("doc" :> M(("sub" :> M("x" :> IntV(0))) @@ ("tall" :> BoolV(FALSE))))

\* the value held by the field is a slice or an array, or a pointer to one
IsSequence(val) ==
    \/ ValueOf(val).k \in {"slice", "array"}
    \/ ValueOf(val).k = "ptr" /\ Elem(ValueOf(val)).k \in {"slice", "array"}

\* the slice or array itself
SequenceOf(val) ==
    IF ValueOf(val).k = "ptr" THEN Elem(ValueOf(val)) ELSE ValueOf(val)

\* the element type of the sequence is a struct or a pointer to a struct
HoldsRecords(sq) ==
    \/ Tail(sq.t) = <<"struct">>
    \/ Tail(sq.t) = <<"ptr", "struct">>

\* the sequence the claim expects for the sequence sq: element by element the
\* resolved value of the input element, in input order
ElementWise(sq) ==
    Slices([x \in DOMAIN sq.elems |-> nestedData(sq.elems[x], opts, TagName, "up").v])

\* C14: the step on a field without omitnested (and without string) holding a
\* slice or an array, that no earlier rule has skipped, writes under the
\* field's key the sequence of the mappings of the elements, same length and
\* order, when the element type is a struct or a pointer to a struct, and the
\* sequence itself for any other element type; it does not fault.
C14_SequenceElementWise ==
    [][ (/\ AtField
         /\ Reached(fields[i])
         /\ TagOf(fields[i]).opts \cap {"omitnested", "string"} = {}
         /\ IsSequence(fields[i].val)) =>
            /\ pc' = "loop"
            /\ i' = i + 1
            /\ out' = Put(out, KeyOf(fields[i]),
                          IF HoldsRecords(SequenceOf(fields[i].val))
                          THEN ElementWise(SequenceOf(fields[i].val))
                          ELSE SequenceOf(fields[i].val))
      ]_vars

\* the value held by the field is a map, or a pointer to one
IsMap(val) ==
    \/ ValueOf(val).k = "map"
    \/ ValueOf(val).k = "ptr" /\ Elem(ValueOf(val)).k = "map"

\* the element type of the map type t is a struct or a pointer to a struct
MapsToRecords(t) == Tail(t) \in {<<"struct">>, <<"ptr", "struct">>}

\* the document the claim expects for the map mp: the same keys, each bound
\* to the resolved value of that key's element
KeyWise(mp) ==
    M([x \in DOMAIN mp.ents |-> nestedData(mp.ents[x], opts, TagName, "up").v])

\* C15: the step on a field without omitnested (and without string and
\* flatten) holding a map, that no earlier rule has skipped, writes under the
\* field's key a document with exactly the keys of the input map, each bound
\* to the mapping of its element, when the element type is a struct or a
\* pointer to a struct, whatever the key type; a map of any other element type
\* is written as it is.
C15_MapKeyWise ==
    [][ (/\ AtField
         /\ Reached(fields[i])
         /\ TagOf(fields[i]).opts \cap {"omitnested", "string", "flatten"} = {}
         /\ IsMap(fields[i].val)) =>
            /\ pc' = "loop"
            /\ i' = i + 1
            /\ out' = Put(out, KeyOf(fields[i]),
                          IF MapsToRecords(ValueOf(fields[i].val).t)
                          THEN KeyWise(ValueOf(fields[i].val))
                          ELSE ValueOf(fields[i].val))
      ]_vars

\* C16: two calls with the same record, options and tag name return equal
\* documents: whatever order the ranges over the maps of the input take, the
\* step on a field gives the same outcome.
C16_SameInputsSameDocument ==
    AtField =>
        \A o1, o2 \in Orders :
            fieldStep(out, fields[i], opts, TagName, o1)
                = fieldStep(out, fields[i], opts, TagName, o2)

\* the record held by field f has a visible "_id" field at position x whose
\* value is not empty
NestedIDAt(f, x) ==
    /\ IsRecord(f.val)
    /\ x \in IDFieldsOf(structVal(ValueOf(f.val)).v)
    /\ ~Empty(structVal(ValueOf(f.val)).v.fields[x].val)

\* C17: with UseIDifAvailable, when every "_id" field of the top-level record
\* is empty, a visible field without omitnested, string and flatten that holds
\* a record with a non-empty "_id" is mapped to exactly {"_id": nestedId}
\* under its own key in the returned document: the shortcut of the nested
\* record does not replace the document of its parent.
C17_NestedShortcutStaysNested ==
    (/\ pc = "done" /\ UseIDOn /\ isStructArg(arg)
     /\ \A x \in IDFieldsOf(Record) : Empty(Record.fields[x].val)) =>
        \A y \in DOMAIN Record.fields :
            LET f == Record.fields[y]
            IN  (f.PkgPath = "" /\ PlainlyNested(f) /\ IsRecord(f.val)) =>
                    \A x \in DOMAIN structVal(ValueOf(f.val)).v.fields :
                        NestedIDAt(f, x) =>
                            /\ KeyOf(f) \in DOMAIN result.ents
                            /\ result.ents[KeyOf(f)] =
                                 M("_id" :> ValueOf(structVal(ValueOf(f.val)).v.fields[x].val))

\* the record { ID: "" (tag name "_id"), Name: "Jane" (no tag) }
IsJane(sv) ==
    /\ Len(sv.fields) = 2
    /\ sv.fields[1].Name = "ID" /\ TagOf(sv.fields[1]).name = "_id"
    /\ sv.fields[1].val = StrV("")
    /\ sv.fields[2] = Fld("Name", "", NoTag, StrV("Jane"))

\* C18 as stated: with UseIDifAvailable the record { ID: "", Name: "Jane" }
\* maps to exactly {"Name": "Jane"}, whatever else the tag of ID says.
C18_EmptyIDLeavesNoEntry ==
    (pc = "done" /\ UseIDOn /\ isStructArg(arg) /\ IsJane(Record)) =>
        result = M("Name" :> StrV("Jane"))

\* C18 as amended: with UseIDifAvailable the record { ID: "", Name: "Jane" }
\* maps to exactly {"Name": "Jane"} when ID is tagged omitempty or RemoveID or
\* GenerateFilterOrPatch is on; otherwise the empty identifier is mapped as
\* any field is and the result is {"_id": "", "Name": "Jane"}.
C18_EmptyIDMappedUnlessOmitted ==
    (pc = "done" /\ UseIDOn /\ isStructArg(arg) /\ IsJane(Record)) =>
        result = IF \/ Has(TagOf(Record.fields[1]).opts, "omitempty")
                    \/ RemoveIDOn
                    \/ FilterOn
                 THEN M("Name" :> StrV("Jane"))
                 ELSE M(("_id" :> StrV("")) @@ ("Name" :> StrV("Jane")))

\* C18 witness: the record with ID tagged "_id,omitempty" has been mapped to
\* {"Name": "Jane"} with only UseIDifAvailable on.
C18_Witness ==
    /\ pc = "done" /\ UseIDOn /\ ~RemoveIDOn /\ ~FilterOn
    /\ isStructArg(arg) /\ IsJane(Record)
    /\ Has(TagOf(Record.fields[1]).opts, "omitempty")
    /\ result = M("Name" :> StrV("Jane"))

\* &MappingOpts{}: the options given, all three switches false
AllFalse == MappingOpts(FALSE, FALSE, FALSE)

\* C19: a nil options pointer behaves as &MappingOpts{}.  In a call with nil
\* options every step of the loop has the outcome it has with all switches
\* false, nested records included, and the call ends as the mapping with all
\* switches false ends: the same document, or the same panic.
C19_NilIsAllFalse ==
    (opts.nil /\ isStructArg(arg)) =>
        /\ AtField =>
              \A ord \in Orders :
                  fieldStep(out, fields[i], opts, TagName, ord)
                      = fieldStep(out, fields[i], AllFalse, TagName, ord)
        /\ pc = "done" =>
              \E ord \in Orders :
                  /\ ~ToBSONMap(Record, AllFalse, TagName, ord).panic
                  /\ result = ToBSONMap(Record, AllFalse, TagName, ord).v
        /\ pc = "panic" =>
              \E ord \in Orders : ToBSONMap(Record, AllFalse, TagName, ord).panic

\* C19 witness: a call with nil options on a record with an "_id" field and a
\* nested record has returned the document that all switches false give.
C19_Witness ==
    /\ pc = "done" /\ opts.nil /\ isStructArg(arg)
    /\ Len(fields) = 2
    /\ fields[1] = Fld("Doc", "", B(<<"doc">>), Outer("out", Inner("in", 0), FALSE))
    /\ fields[2] = Fld("ID", "", B(<<"_id">>), StrV("abc"))
    /\ result = ToBSONMap(Record, AllFalse, TagName, "up").v
    /\ DOMAIN result.ents = {"doc", "_id"}

\* C20: a new handle takes the value DefaultTagName has at that moment; an
\* assignment to DefaultTagName leaves the TagName of the handle, the state of
\* its mapping and its result as they are; TagName changes only when a handle
\* is made or SetTagName is called; and the document ToBSONMap returns is the
\* mapping of the record under the TagName of the handle.
C20_TagNameOfTheHandle ==
    [][ /\ (pc \in {"idle", "done"} /\ pc' = "wrapped") => TagName' = DefaultTagName
        /\ (DefaultTagName' # DefaultTagName) =>
              /\ TagName' = TagName
              /\ <<pc, fields, i, out, result>>' = <<pc, fields, i, out, result>>
        /\ (TagName' # TagName /\ pc' = pc) =>
              /\ pc \in {"wrapped", "done"}
              /\ TagName' \in TagNames
              /\ DefaultTagName' = DefaultTagName
        /\ (pc = "loop" /\ pc' = "done") =>
              \E ord \in Orders :
                  /\ ~ToBSONMap(Record, opts, TagName, ord).panic
                  /\ result' = ToBSONMap(Record, opts, TagName, ord).v
      ]_vars

\* C20 witness: the handle was made while DefaultTagName was "bson", then
\* DefaultTagName became "json", and ToBSONMap has returned the document of
\* the bson tags.
C20_Witness ==
    /\ pc = "done"
    /\ DefaultTagName = "json" /\ TagName = "bson"
    /\ Len(Record.fields) = 2 /\ Record.fields[1].Name = "Name"
    /\ result = M(("name" :> StrV("Jane")) @@ ("at" :> M("x" :> IntV(0))))

\* what an invocation on s returns when it runs alone under tag name tag and
\* ranges maps in order ord
Alone(s, mo, tag, ord) ==
    IF ~isStructArg(s) THEN [panic |-> FALSE, v |-> NilM]
    ELSE ToBSONMap(structVal(s).v, mo, tag, ord)

ReturnsAsAlone(p, tag) ==
    /\ calls[p].pc = "done" =>
          \E ord \in Orders : /\ ~Alone(arg, opts, tag, ord).panic
                              /\ calls[p].result = Alone(arg, opts, tag, ord).v
    /\ calls[p].pc = "panic" => \E ord \in Orders : Alone(arg, opts, tag, ord).panic

\* C21 as stated: nothing an invocation reads can be written by another
\* thread, so under every interleaving each concurrent invocation returns the
\* document of the inputs it was launched with (DefaultTagName was "bson").
C21_NothingReadIsWritable ==
    \A p \in Calls : ReturnsAsAlone(p, "bson")

\* C21: concurrent invocations on one record write no shared state: a step of
\* an invocation changes its own locals only and leaves DefaultTagName alone;
\* each returns what it would return alone under the value it read from
\* DefaultTagName, the one variable it reads that another goroutine can
\* assign; while no goroutine assigns it, every invocation returns the
\* document of the run alone.
C21_InvocationsShareOnlyDefaultTagName ==
    /\ [](\A p \in Calls :
             /\ calls[p].pc # "call" /\ isStructArg(arg) =>
                   ReturnsAsAlone(p, calls[p].TagName)
             /\ writes = 0 => ReturnsAsAlone(p, "bson"))
    /\ [][\A p \in Calls :
             calls'[p] # calls[p] =>
                /\ DefaultTagName' = DefaultTagName
                /\ \A q \in Calls \ {p} : calls'[q] = calls[q]
                /\ calls[p].pc = "call" /\ isStructArg(arg) =>
                      calls'[p].TagName = DefaultTagName
                /\ calls[p].pc # "call" => calls'[p].TagName = calls[p].TagName
       ]_vars

\* C21 witness: the second invocation has run from start to return while the
\* first is between its first and its second field, with the first entry of
\* the same document in its own output; DefaultTagName was never assigned.
C21_Witness ==
    /\ writes = 0
    /\ calls[1].pc = "loop" /\ calls[1].i = 2
    /\ calls[1].out = ("name" :> StrV("Jane"))
    /\ calls[2].pc = "done"
    /\ calls[2].result = M(("name" :> StrV("Jane")) @@ ("at" :> M("x" :> IntV(0))))

(***************************************************************************)
(* parseTag and tagOptions.Has called by hand, as mapper/tags_test.go      *)
(* does, on tag strings of up to MaxTagLen commas and chunks.              *)
(***************************************************************************)
Chunks == {"a", "omitempty"}

\* the tag strings: no two chunks side by side (they would be one chunk)
TagStrings ==
    UNION { { t \in [1..n -> Chunks \cup {","}] :
                \A x \in 1..(n - 1) : t[x] = "," \/ t[x + 1] = "," } :
            n \in 0..MaxTagLen }

ParseInit ==
    /\ DefaultTagName = "bson"
    /\ arg = Invalid
    /\ opts = NilOpts
    /\ TagName = ""
    /\ pc = "tag"
    /\ fields = <<>>
    /\ i = 0
    /\ out = <<>>
    /\ result = NilM
    /\ calls = <<>>
    /\ writes = 0
    /\ rawTag \in TagStrings
    /\ parsedTag = [name |-> "", opts |-> {}]
    /\ hasAnswer = [opt |-> "", ok |-> FALSE]

\* line 291-301: tagName, tagOpts := parseTag(tag)
CallParseTag ==
    /\ pc = "tag"
    /\ parsedTag' = parseTag(rawTag)
    /\ pc' = "parsed"
    /\ UNCHANGED <<DefaultTagName, arg, opts, TagName, fields, i, out, result, calls,
                   writes, rawTag, hasAnswer>>

\* line 282-287: tagOpts.Has(opt)
CallHas ==
    /\ pc \in {"parsed", "asked"}
    /\ \E opt \in Chunks \cup {"", "flatten"} :
          hasAnswer' = [opt |-> opt, ok |-> Has(parsedTag.opts, opt)]
    /\ pc' = "asked"
    /\ UNCHANGED <<DefaultTagName, arg, opts, TagName, fields, i, out, result, calls,
                   writes, rawTag, parsedTag>>

ParseNext == CallParseTag \/ CallHas

ParseSpec == ParseInit /\ [][ParseNext]_vars

\* the struct values an argument leads to through non-nil pointers: one for a
\* struct or a pointer, of any depth, to a struct, none for any other argument
RECURSIVE PointedStructs(_)
PointedStructs(s) ==
    CASE s.k = "struct" -> {s}
      [] s.k = "ptr" /\ ~s.nil -> PointedStructs(s.elem)
      [] OTHER -> {}

WithUnknown(f, key) ==
    [f EXCEPT !.Tag = (key :> (TagGet(f.Tag, key) \o <<",", "unknown">>)) @@ f.Tag]

\* the records that differ from sv by ",unknown" appended to the tag of one
\* field that satisfies Sel
Appended(sv, key, Sel(_)) ==
    { [sv EXCEPT !.fields[j] = WithUnknown(sv.fields[j], key)] :
        j \in {x \in DOMAIN sv.fields : Sel(sv.fields[x])} }

\* the same one level down as well: in a field of the record or in a field of
\* a record nested in it
AppendedAnywhere(sv, key, Sel(_)) ==
    Appended(sv, key, Sel)
    \cup UNION { { [sv EXCEPT !.fields[j].val = n] :
                     n \in Appended(sv.fields[j].val, key, Sel) } :
                 j \in {x \in DOMAIN sv.fields : sv.fields[x].val.k = "struct"} }

\* a value without the tags of the struct types in it: what is left to
\* compare between values of types that differ in their tags only
RECURSIVE Untagged(_)
Untagged(v) ==
    CASE v.k = "struct" ->
            [v EXCEPT !.fields = [x \in DOMAIN v.fields |->
                                    [v.fields[x] EXCEPT !.Tag = <<>>,
                                                        !.val = Untagged(@)]]]
      [] v.k = "ptr" -> [v EXCEPT !.elem = Untagged(@)]
      [] v.k = "iface" -> [v EXCEPT !.dyn = Untagged(@)]
      [] v.k \in {"slice", "array"} ->
            [v EXCEPT !.elems = [x \in DOMAIN v.elems |-> Untagged(v.elems[x])]]
      [] v.k = "map" ->
            [v EXCEPT !.ents = [x \in DOMAIN v.ents |-> Untagged(v.ents[x])]]
      [] OTHER -> v

SameAs(a, b) == a.panic = b.panic /\ Untagged(a.v) = Untagged(b.v)

\* the call on record sv ends as the call on the record of the run does
SameOutcome(sv) ==
    /\ \A ord \in Orders :
          SameAs(ToBSONMap(sv, opts, TagName, ord), ToBSONMap(Record, opts, TagName, ord))
    /\ pc = "done" => \E ord \in Orders :
                         Untagged(result) = Untagged(ToBSONMap(sv, opts, TagName, ord).v)
    /\ pc = "panic" => \E ord \in Orders : ToBSONMap(sv, opts, TagName, ord).panic

AnyField(f) == TRUE

NotWholeDash(f) == TagGet(f.Tag, TagName) # <<"-">>

NameSegment(tag) == IF tag = <<>> \/ tag[1] = "," THEN "" ELSE tag[1]

\* the key the entry of field f is to have
EntryKey(f) ==
    IF NameSegment(TagGet(f.Tag, TagName)) # ""
    THEN NameSegment(TagGet(f.Tag, TagName))
    ELSE f.Name

\* the pass of the loop over field f ends in out[name] = ..., by the string
\* rule or by the plain assignment
EntryWritten(f) ==
    /\ ~useID(opts, TagOf(f).name, f.val)
    /\ ~removeID(opts, TagOf(f).name)
    /\ ~omitEmpty(opts, TagOf(f).opts, f.val)
    /\ IF Has(TagOf(f).opts, "string") THEN isStringer(f.val)
       ELSE ~(isSubStruct(TagOf(f).opts, f.val) /\ Has(TagOf(f).opts, "flatten"))

Scalar(val) == val.k \in {"string", "int", "bool"}

\* C24: an entry written by the plain assignment or by the string coercion
\* has the key of the field: the name of its tag when that is non-empty, and
\* the declared field name otherwise; no other entry of the document changes;
\* and for a scalar field the value of the entry is the value of the field.
C24_EntryKeyedByTagNameOrFieldName ==
    [][ (pc = "loop" /\ pc' = "loop" /\ EntryWritten(fields[i])) =>
          /\ DOMAIN out' = DOMAIN out \cup {EntryKey(fields[i])}
          /\ \A key \in DOMAIN out \ {EntryKey(fields[i])} : out'[key] = out[key]
          /\ Scalar(fields[i].val) => out'[EntryKey(fields[i])] = fields[i].val
          /\ Has(TagOf(fields[i]).opts, "string") =>
                out'[EntryKey(fields[i])] = StrV(String(fields[i].val).s)
      ]_vars

\* C24 witness: a record with a time tagged "when,string" and a string tagged
\* ",omitempty" was mapped: the coerced entry is keyed by the tag name, the
\* string entry by the field name, with the value of the field.
C24_Witness ==
    /\ pc = "done" /\ Len(fields) = 2
    /\ fields[1] = Fld("When", "", B(<<"when", ",", "string">>), Time(1))
    /\ fields[2] = Fld("Name", "", B(<<",", "omitempty">>), StrV("Jane"))
    /\ EntryWritten(fields[1]) /\ EntryWritten(fields[2])
    /\ result = M(("when" :> StrV("2000-01-01")) @@ ("Name" :> StrV("Jane")))

\* the key field f has when its directives are read under tag
KeyUnder(f, tag) ==
    IF NameSegment(TagGet(f.Tag, tag)) # "" THEN NameSegment(TagGet(f.Tag, tag))
    ELSE f.Name

\* the keys that reading the directives under tag can give, at any depth of
\* value v: the keys of the fields of its records, and the keys of its maps
RECURSIVE KeysUnder(_, _)
KeysUnder(v, tag) ==
    CASE v.k = "struct" ->
            UNION { {KeyUnder(v.fields[x], tag)} \cup KeysUnder(v.fields[x].val, tag) :
                    x \in DOMAIN v.fields }
      [] v.k = "ptr" /\ ~v.nil -> KeysUnder(v.elem, tag)
      [] v.k = "iface" -> KeysUnder(v.dyn, tag)
      [] v.k \in {"slice", "array"} ->
            UNION { KeysUnder(v.elems[x], tag) : x \in DOMAIN v.elems }
      [] v.k = "map" ->
            DOMAIN v.ents \cup UNION { KeysUnder(v.ents[x], tag) : x \in DOMAIN v.ents }
      [] OTHER -> {}

\* the keys of the documents in v, at any depth
RECURSIVE DocumentKeys(_)
DocumentKeys(v) ==
    CASE isPrimitiveM(v) ->
            DOMAIN v.ents \cup UNION { DocumentKeys(v.ents[x]) : x \in DOMAIN v.ents }
      [] v.k = "slice" -> UNION { DocumentKeys(v.elems[x]) : x \in DOMAIN v.elems }
      [] OTHER -> {}

\* C25: ToBSONMap on a handle whose TagName was set with SetTagName reads the
\* directives under that tag name for the top-level record and for every
\* nested record, those inside sequences and maps included, at every depth:
\* the document it returns is the mapping under TagName, every key in it at
\* any depth is a key that the tags under TagName give, and the value of
\* DefaultTagName has no part in it.
C25_NestedRecordsUnderTagName ==
    [][ (pc = "loop" /\ pc' = "done") =>
          /\ DocumentKeys(result') \subseteq KeysUnder(Record, TagName)
          /\ \E ord \in Orders : result' = ToBSONMap(Record, opts, TagName, ord).v
          /\ TagName # DefaultTagName =>
                DocumentKeys(result') \cap
                   (KeysUnder(Record, DefaultTagName) \ KeysUnder(Record, TagName)) = {}
      ]_vars

\* C25 witness: the handle on a record with a sequence of records that nest a
\* record, and a map of records, was set to "json" while DefaultTagName was
\* "bson", and ToBSONMap returned the document of the json tags at each depth.
C25_Witness ==
    /\ pc = "done" /\ arg = Route
    /\ TagName = "json" /\ DefaultTagName = "bson"
    /\ result = M(("ps" :> Slices(<<M("q" :> M("ex" :> IntV(1)))>>))
                  @@ ("b" :> M("a" :> M("ex" :> IntV(2)))))

\* what the pass of the loop over field j writes, taken on an empty document
WritesOf(j, ord) == fieldStep(<<>>, fields[j], opts, TagName, ord)

\* the fields that write key
WritersOf(key, ord) == {j \in DOMAIN fields : key \in DOMAIN WritesOf(j, ord).out}

Last(S) == CHOOSE j \in S : \A x \in S : x <= j

\* some key of the document is written by two fields
Collision(ord) ==
    \E j, x \in DOMAIN fields :
        j < x /\ DOMAIN WritesOf(j, ord).out \cap DOMAIN WritesOf(x, ord).out # {}

\* C26: when the writes of two fields target the same key of the output
\* document (a flattened key and the key of a sibling, or keys of two
\* flattened fields), no error is raised, the document keeps a single entry
\* for the key, and its value is the one written by the field that is later
\* in declaration order.
C26_LaterFieldWins ==
    Ended =>
      \E ord \in Orders :
        \/ \E j \in DOMAIN fields : WritesOf(j, ord).ctl # "next"
        \/ /\ pc = "done"
           /\ DOMAIN result.ents = UNION { DOMAIN WritesOf(j, ord).out : j \in DOMAIN fields }
           /\ \A key \in DOMAIN result.ents :
                 result.ents[key] = WritesOf(Last(WritersOf(key, ord)), ord).out[key]

\* C26 witness: a nested record flattened under the keys "_id" and "x" is
\* followed by a string field tagged "x": the document has one entry "x",
\* with the value of the string field.
C26_Witness ==
    /\ pc = "done" /\ Len(fields) = 2
    /\ fields[1] = Fld("Doc", "", B(<<"x", ",", "flatten">>), Inner("in", 1))
    /\ fields[2] = Fld("Name", "", B(<<"x">>), StrV("Jane"))
    /\ Collision("up")
    /\ result = M(("_id" :> StrV("in")) @@ ("x" :> StrV("Jane")))

\* the positions of the commas of a tag string
Commas(tag) == {x \in DOMAIN tag : tag[x] = ","}

\* segment n of a tag string: what stands between comma n - 1 (the start for
\* n = 1) and the next comma or the end
Segment(tag, n) ==
    LET start == IF n = 1 THEN 0
                 ELSE CHOOSE c \in Commas(tag) :
                         Cardinality({d \in Commas(tag) : d <= c}) = n - 1
    IN  IF start + 1 > Len(tag) \/ tag[start + 1] = "," THEN "" ELSE tag[start + 1]

LaterSegments(tag) == {Segment(tag, n) : n \in 2..(Cardinality(Commas(tag)) + 1)}

\* C27: parseTag splits the tag on ",": the first segment, possibly empty, is
\* the name; every later segment, an empty one included, is a member of the
\* option set, duplicates collapsed; the empty tag gives ("", {}); and
\* Has(opt) is true exactly for the members.
C27_ParseTagSplitsOnCommas ==
    /\ pc \in {"parsed", "asked"} =>
          /\ parsedTag.name = Segment(rawTag, 1)
          /\ parsedTag.opts = LaterSegments(rawTag)
          /\ rawTag = <<>> => parsedTag = [name |-> "", opts |-> {}]
    /\ pc = "asked" => (hasAnswer.ok <=> hasAnswer.opt \in LaterSegments(rawTag))

\* C27 witness: the tag ",,omitempty,omitempty" was parsed into the empty
\* name and the two options "" and "omitempty", and Has("") answered true.
C27_Witness ==
    /\ pc = "asked"
    /\ rawTag = <<",", ",", "omitempty", ",", "omitempty">>
    /\ parsedTag = [name |-> "", opts |-> {"", "omitempty"}]
    /\ hasAnswer = [opt |-> "", ok |-> TRUE]

\* a field the mapper is to leave out: unexported, or tagged "-"
Hidden(f) == f.PkgPath # "" \/ TagGet(f.Tag, TagName) = <<"-">>

\* another value of the same type, zero where val is not and the reverse
Other(val) ==
    CASE val.k = "string" -> StrV(IF val.s = "" THEN "secret" ELSE "")
      [] val.k = "int" -> IntV(IF val.n = 0 THEN 1 ELSE 0)
      [] OTHER -> val

\* the struct values that differ from sv in the value of one hidden field
HiddenChanged(sv) ==
    { [sv EXCEPT !.fields[x].val = Other(@)] :
        x \in {y \in DOMAIN sv.fields : Hidden(sv.fields[y])} }

\* the top-level fields of sv that hold a nested record, directly or behind
\* a pointer, and are not tagged omitnested
NestedRecordFields(sv) ==
    { j \in DOMAIN sv.fields :
        /\ ~Hidden(sv.fields[j])
        /\ ~Has(TagOf(sv.fields[j]).opts, "omitnested")
        /\ PointedStructs(sv.fields[j].val) # {}
        /\ sv.fields[j].val.k = "struct" \/ sv.fields[j].val.elem.k = "struct" }

\* field j of sv with its nested record replaced by n
WithNested(sv, j, n) ==
    IF sv.fields[j].val.k = "struct" THEN [sv EXCEPT !.fields[j].val = n]
    ELSE [sv EXCEPT !.fields[j].val.elem = n]

NestedAt(sv, j) == CHOOSE n \in PointedStructs(sv.fields[j].val) : TRUE

BesideEntries(sv, j, n, ord) ==
    \/ Has(TagOf(sv.fields[j]).opts, "string")
    \/ Len_(ToBSONMap(NestedAt(sv, j), opts, TagName, ord).v) = 0
    \/ /\ Has(TagOf(sv.fields[j]).opts, "omitempty") \/ FilterOn
       /\ IsZero(sv.fields[j].val) # IsZero(WithNested(sv, j, n).fields[j].val)

WithRemoveID(b) == [opts EXCEPT !.RemoveID = b]

\* v without the "_id" entries of the documents in it, at any depth
RECURSIVE NonID(_)
NonID(v) ==
    CASE isPrimitiveM(v) ->
            [v EXCEPT !.ents = [x \in DOMAIN v.ents \ {"_id"} |-> NonID(v.ents[x])]]
      [] v.k = "slice" ->
            [v EXCEPT !.elems = [x \in DOMAIN v.elems |-> NonID(v.elems[x])]]
      [] OTHER -> v

\* two calls end alike but for "_id" entries
SameButID(a, b) == a.panic = b.panic /\ NonID(a.v).ents = NonID(b.v).ents

\* the result of the run is the mapping under its own options
ResultOfRun(ord) ==
    IF pc = "panic" THEN ToBSONMap(Record, opts, TagName, ord).panic
    ELSE result = ToBSONMap(Record, opts, TagName, ord).v

EmptiedByRemoveID(sv, ord) ==
    \E n \in SubValues(sv) \ {sv} :
        /\ n.k = "struct"
        /\ Len_(ToBSONMap(n, WithRemoveID(TRUE), TagName, ord).v) = 0
        /\ Len_(ToBSONMap(n, WithRemoveID(FALSE), TagName, ord).v) > 0

EmptyDocument(v) == isPrimitiveM(v) /\ Len_(v) = 0

\* what a call may return: nil, or a document with entries
NilOrEntries(v) == v = NilM \/ (isPrimitiveM(v) /\ Len_(v) > 0)

\* some value held in v, at any depth, is an empty document
RECURSIVE EmptyDocumentIn(_)
EmptyDocumentIn(v) ==
    \/ isPrimitiveM(v) /\ \E x \in DOMAIN v.ents :
                             EmptyDocument(v.ents[x]) \/ EmptyDocumentIn(v.ents[x])
    \/ v.k = "slice" /\ \E x \in DOMAIN v.elems :
                           EmptyDocument(v.elems[x]) \/ EmptyDocumentIn(v.elems[x])

\* some sequence inside v, at any depth, has an empty document as an element
RECURSIVE EmptyElementIn(_)
EmptyElementIn(v) ==
    \/ v.k = "slice" /\ \E x \in DOMAIN v.elems :
                           EmptyDocument(v.elems[x]) \/ EmptyElementIn(v.elems[x])
    \/ isPrimitiveM(v) /\ \E x \in DOMAIN v.ents : EmptyElementIn(v.ents[x])

\* the record holds, at some depth, a map of records without keys
HoldsEmptyMapOfRecords(sv) ==
    \E v \in SubValues(sv) : v.k = "map" /\ mapOfStructs(v.t) /\ Len_(v) = 0

====
